---------------------------- MODULE Spec2Model ----------------------------
(***************************************************************************)
(* iexec: run a program as a daemon (src/src/iexec.c).                     *)
(*                                                                         *)
(* main() is modelled one system call (or one loop iteration) per action.  *)
(* `pc' is the position of the launching process (which becomes the        *)
(* parent after fork), `cpc' the position of the forked child.  The        *)
(* operating system is modelled by the descriptor tables `fds'/`cfds',     *)
(* the file system (`ino', `perm', `content', `truncs'), the resource      *)
(* limits `rlim' and the outcome chosen for each call that can fail.       *)
(***************************************************************************)
EXTENDS Integers, Sequences, FiniteSets, TLC

(* ------------------------------ bounds -------------------------------- *)
\* number of limit kinds modelled (RLIMIT_NLIMITS is 16 on Linux)
NumKinds == 2
\* largest finite limit value used in requests and current pairs
MaxLimit == 2
\* width of rlim_t in the model (64 in the build); RLIM_INFINITY is all ones
RlimBits == 3
\* highest descriptor number of the descriptor tables
MaxFd == 4
\* longest explicit list of descriptors to close (-c options)
MaxCloseLen == 2

(* ---------------------------- constants ------------------------------- *)
IEXEC_RLIMIT_UNCHANGED == -2
STDIN_FILENO == 0
STDOUT_FILENO == 1
STDERR_FILENO == 2

RECURSIVE Pow2(_)
Pow2(n) == IF n = 0 THEN 1 ELSE 2 * Pow2(n - 1)
RlimModulus == Pow2(RlimBits)
RLIM_INFINITY == RlimModulus - 1

Kinds == 0 .. (NumKinds - 1)
Fds == 0 .. MaxFd
DevNull == "/dev/null"
Paths == {DevNull, "a", "b"}
\* inode numbers: 1 is the null device, the others are regular files
NullIno == 1
Inodes == 1 .. 3
\* process ids fork can return to the parent
Pids == {7, 120}
\* content of a regular file left by an earlier run
OldContent == <<"9", "9", "9", "9", "\n">>
NoPath == ""

VARIABLES
  config,           \* iexec_config, filled by parse_options, read-only afterwards
  pc,               \* position of the launching process / parent in main()
  cpc,              \* position of the child ("none" before fork)
  exit_status,      \* "running", "success" or "failure" of the launching process
  cexit,            \* "none", "running", "failure" (child exited) or "execd"
  i,                \* loop variable of the limit loop
  k,                \* loop variable of the descriptor-close loop
  saved_stderr_fd,  \* the diagnostic duplicate (2 until dup is called)
  outerr_same,      \* result of same_file()
  open_mode,        \* "a" or "w"
  child_pid,        \* result of fork() in the parent (-1 failed, 0 not yet)
  pid_fd,           \* descriptor of the pid file stream (-1 none)
  pid_buf,          \* stdio buffer of the pid file stream
  rlim,             \* OS: kind -> [cur, max]
  rlim0,            \* the pairs when the run started
  cap,              \* OS: may the process raise hard limits
  fds,              \* OS: descriptor table of the launching process / parent
  fds0,             \* the descriptor table handed over by the launching caller
  cfds,             \* OS: descriptor table of the child
  ino,              \* OS: path -> inode (0: does not exist)
  perm,             \* OS: inode -> [r, w] for the identity the run ends up with
  dir_writable,     \* OS: may new files be created
  disk_full,        \* OS: writing data back to a regular file fails (ENOSPC)
  content,          \* OS: inode -> sequence of characters
  truncs,           \* number of truncations of each inode during the run
  cwd,              \* OS: working directory ("orig" or the requested one)
  uid,              \* OS: identity ("caller" or the requested user)
  cumask,           \* OS: umask of the child (-1: the inherited one)
  csid,             \* OS: session id of the child (0: the launching session)
  cpid,             \* OS: pid of the child
  trace,            \* calls made by the launching process / parent, in order
  ctrace,           \* calls made by the child, in order
  limit_log,        \* pairs handed to setrlimit, in order
  diag              \* messages emitted by error(), with the file they went to

vars == <<config, pc, cpc, exit_status, cexit, i, k, saved_stderr_fd,
          outerr_same, open_mode, child_pid, pid_fd, pid_buf, rlim, rlim0,
          cap, fds, fds0, cfds, ino, perm, dir_writable, disk_full, content, truncs,
          cwd, uid, cumask, csid, cpid, trace, ctrace, limit_log, diag>>

cfgVars == <<config, rlim0, fds0, cap, perm, dir_writable, disk_full>>
limVars == <<i, rlim, limit_log>>
fsVars == <<ino, content, truncs>>
childVars == <<cpc, cexit, cfds, cumask, csid, cpid, ctrace>>
streamLocals == <<outerr_same, open_mode>>
pidVars == <<child_pid, pid_fd, pid_buf>>

(* ------------------------- descriptor tables -------------------------- *)
Closed == [kind |-> "closed", ref |-> 0, mode |-> "-", cloexec |-> FALSE]
\* a stream the launching caller handed over on descriptor n
Orig(n) == [kind |-> "orig", ref |-> n, mode |-> "-", cloexec |-> FALSE]
\* an open file: inode and the mode it was opened with
File(n, m) == [kind |-> "file", ref |-> n, mode |-> m, cloexec |-> FALSE]

IsOpen(tab, fd) == fd \in Fds /\ tab[fd].kind # "closed"
FreeFds(tab) == {fd \in Fds : tab[fd].kind = "closed"}
LowestFree(tab) == CHOOSE fd \in FreeFds(tab) : \A g \in FreeFds(tab) : fd <= g

\* one record of `trace'/`ctrace'
Ev(op, fd, path, ok) == [op |-> op, fd |-> fd, path |-> path, ok |-> ok, cwd |-> cwd]
\* one record of `diag': the message and what descriptor 2 referred to
Msg(m, tab) == [msg |-> m, kind |-> tab[STDERR_FILENO].kind, ref |-> tab[STDERR_FILENO].ref]


(* ----------------------------- helpers -------------------------------- *)
\* conversion of an int option value to rlim_t (unsigned, RlimBits wide)
ToRlim(v) == (v + RlimModulus) % RlimModulus

\* setrlimit(2): EINVAL when soft exceeds hard, EPERM when an unprivileged
\* process raises the hard limit
SetrlimitOk(old, new) ==
  /\ new.cur <= new.max
  /\ (new.max > old.max => cap)

\* access(2) for mode m ("r" or "w"); the callers accept "enoent", and the
\* event they log says whether the path passed the validation
Access(path, m) ==
  IF ino[path] = 0 THEN "enoent"
  ELSE IF (m = "r" /\ perm[ino[path]].r) \/ (m = "w" /\ perm[ino[path]].w)
       THEN "ok" ELSE "eacces"

\* error(0, ..): exit(EXIT_FAILURE) of the launching process
ExitWith(s) == pc' = "done" /\ exit_status' = s
\* error(): the message goes to whatever descriptor 2 of table tab refers to
Error(m, tab) == diag' = Append(diag, Msg(m, tab))
Log(e) == trace' = Append(trace, e)

(* --------------------------- main(): 386-393 -------------------------- *)
NoProgramMutant(argc) == argc < 0

\* the test of line 390
NoProgram(argc) == argc = 0

CheckArgs ==
  /\ pc = "check_args"
  /\ IF NoProgram(config.remaining_argc)
     THEN Error("a program and its arguments are required!", fds) /\ ExitWith("failure")
     ELSE pc' = "limits" /\ UNCHANGED <<diag, exit_status>>
  /\ UNCHANGED <<cfgVars, limVars, fsVars, childVars, streamLocals, pidVars,
                 k, saved_stderr_fd, fds, cwd, uid, trace>>

(* --------------------------- main(): 399-437 -------------------------- *)
\* the pair the loop body hands to setrlimit for kind n, from the requested
\* values and the pair getrlimit returned
Overlay(current, soft_limit, hard_limit) ==
  LET cur1 == IF soft_limit > IEXEC_RLIMIT_UNCHANGED THEN ToRlim(soft_limit) ELSE current.cur
      max1 == IF hard_limit > IEXEC_RLIMIT_UNCHANGED THEN ToRlim(hard_limit) ELSE current.max
  IN [cur |-> cur1, max |-> max1]

ClampMutant(p) == p

Clamp(p) ==
  IF p.max # RLIM_INFINITY /\ p.cur > p.max THEN [cur |-> p.max, max |-> p.max] ELSE p

SoftExceedsMutant(current, soft_limit, hard_limit) ==
  /\ soft_limit > IEXEC_RLIMIT_UNCHANGED
  /\ Overlay(current, soft_limit, hard_limit).max # RLIM_INFINITY
  /\ ToRlim(soft_limit) > Overlay(current, soft_limit, hard_limit).max

\* the validity check of a requested soft value (409-410)
SoftExceeds(current, soft_limit, hard_limit) ==
  /\ soft_limit > IEXEC_RLIMIT_UNCHANGED
  /\ current.max # RLIM_INFINITY
  /\ ToRlim(soft_limit) > current.max

RequestedMutant(soft_limit, hard_limit) ==
  soft_limit >= IEXEC_RLIMIT_UNCHANGED \/ hard_limit >= IEXEC_RLIMIT_UNCHANGED

\* line 403
Requested(soft_limit, hard_limit) ==
  soft_limit > IEXEC_RLIMIT_UNCHANGED \/ hard_limit > IEXEC_RLIMIT_UNCHANGED

AfterLimitMutant(n) == "change_user"

\* the loop of line 399 goes on to the next kind until all kinds are done
AfterLimit(n) == IF n + 1 = NumKinds THEN "change_user" ELSE "limits"

AdjustLimit ==
  /\ pc = "limits"
  /\ i < NumKinds
  /\ LET soft_limit == config.soft_limits[i]
         hard_limit == config.hard_limits[i]
         current == rlim[i]
         new == Clamp(Overlay(current, soft_limit, hard_limit))
         next == AfterLimit(i)
     IN IF ~Requested(soft_limit, hard_limit)
        THEN /\ i' = i + 1 /\ pc' = next
             /\ UNCHANGED <<rlim, limit_log, diag, exit_status>>
        ELSE IF SoftExceeds(current, soft_limit, hard_limit)
        THEN /\ Error("specified SOFT exceeds HARD", fds) /\ ExitWith("failure")
             /\ UNCHANGED <<i, rlim, limit_log>>
        ELSE IF SetrlimitOk(current, new)
        THEN /\ rlim' = [rlim EXCEPT ![i] = new]
             /\ limit_log' = Append(limit_log, [kind |-> i, cur |-> new.cur, max |-> new.max, ok |-> TRUE])
             /\ i' = i + 1 /\ pc' = next
             /\ UNCHANGED <<diag, exit_status>>
        ELSE /\ limit_log' = Append(limit_log, [kind |-> i, cur |-> new.cur, max |-> new.max, ok |-> FALSE])
             /\ Error("error setting resource limit", fds) /\ ExitWith("failure")
             /\ UNCHANGED <<i, rlim>>
  /\ UNCHANGED <<cfgVars, fsVars, childVars, streamLocals, pidVars,
                 k, saved_stderr_fd, fds, cwd, uid, trace>>

(* ------------------ main(): 439-442, iexec_change_user ---------------- *)
RedirectStreamsMutant(keep_open) == TRUE

\* the test of lines 447 and 495
RedirectStreams(keep_open) == ~keep_open

ChangeUser ==
  /\ pc = "change_user"
  /\ LET next == IF RedirectStreams(config.keep_open) THEN "access_stdin" ELSE "chdir"
     IN IF config.username = NoPath
        THEN pc' = next /\ UNCHANGED <<uid, diag, exit_status, trace>>
        ELSE \E r \in {"ok", "nouser", "eperm"} :
               /\ Log(Ev(IF r = "nouser" THEN "getpwnam" ELSE "setuid", -1, NoPath, r = "ok"))
               /\ IF r = "ok"
                  THEN uid' = config.username /\ pc' = next /\ UNCHANGED <<diag, exit_status>>
                  ELSE /\ Error(IF r = "nouser" THEN "could not find user"
                                ELSE "could not change to different user", fds)
                       /\ ExitWith("failure") /\ UNCHANGED uid
  /\ UNCHANGED <<cfgVars, limVars, fsVars, childVars, streamLocals, pidVars,
                 k, saved_stderr_fd, fds, cwd>>

(* --------------------------- main(): 447-459 -------------------------- *)
AccessCheck(here, path, m, text, next) ==
  /\ pc = here
  /\ LET r == Access(path, m)
     IN /\ Log(Ev("access", -1, path, r # "eacces"))
        /\ IF r = "eacces"
           THEN Error(text, fds) /\ ExitWith("failure")
           ELSE pc' = next /\ UNCHANGED <<diag, exit_status>>
  /\ UNCHANGED <<cfgVars, limVars, fsVars, childVars, streamLocals, pidVars,
                 k, saved_stderr_fd, fds, cwd, uid>>

AccessStdin ==
  AccessCheck("access_stdin", config.use_stdin_file, "r",
              "file specified with -i is not readable", "access_stdout")
AccessStdout ==
  AccessCheck("access_stdout", config.use_stdout_file, "w",
              "file specified with -o is not writable", "access_stderr")
AccessStderr ==
  AccessCheck("access_stderr", config.use_stderr_file, "w",
              "file specified with -e is not writable", "dup_stderr")

(* ------------------ main(): 460-466, set_cloexec_flag ----------------- *)
\* outcome r: "ok", or one of the two fcntl calls failing
set_cloexec_flag(tab, desc, r) ==
  IF r = "ok" THEN [tab EXCEPT ![desc].cloexec = TRUE] ELSE tab

\* dup(2): the lowest free descriptor, a copy without the close-on-exec flag
Dup(tab, fd) == [tab EXCEPT ![LowestFree(tab)] = [tab[fd] EXCEPT !.cloexec = FALSE]]

DupStderr ==
  /\ pc = "dup_stderr"
  /\ \/ \* dup fails: EBADF (descriptor 2 is not open) or EMFILE
        /\ saved_stderr_fd' = -1
        /\ Log(Ev("dup", STDERR_FILENO, NoPath, FALSE))
        /\ UNCHANGED <<fds, diag>>
     \/ /\ IsOpen(fds, STDERR_FILENO)
        /\ FreeFds(fds) # {}
        /\ \E r \in {"ok", "getfd_fail", "setfd_fail"} :
             LET new == LowestFree(fds)
                 tab == set_cloexec_flag(Dup(fds, STDERR_FILENO), new, r)
             IN /\ saved_stderr_fd' = new
                /\ fds' = tab
                /\ Log(Ev("dup", new, NoPath, TRUE))
                /\ IF r = "ok" THEN UNCHANGED diag
                   ELSE Error("cannot arrange for stderr file descriptor to close before execvp()", tab)
  /\ pc' = "chdir"
  /\ UNCHANGED <<cfgVars, limVars, fsVars, childVars, streamLocals, pidVars,
                 k, exit_status, cwd, uid>>

(* --------------------------- main(): 471-476 -------------------------- *)
ChdirFailedMutant(r) == r < -1

\* the test of line 472 on the result of chdir
ChdirFailed(r) == r < 0

\* chdir returns 0, or -1 and leaves the current directory as it was
Chdir ==
  /\ pc = "chdir"
  /\ LET next == IF config.num_fds_to_close > 0 THEN "close_fds"
                 ELSE IF RedirectStreams(config.keep_open) THEN "close_stdin" ELSE "fork"
     IN IF config.use_working_dir = NoPath
        THEN pc' = next /\ UNCHANGED <<cwd, diag, exit_status, trace>>
        ELSE \E r \in {0, -1} :
               /\ Log(Ev("chdir", -1, config.use_working_dir, r = 0))
               /\ cwd' = IF r = 0 THEN config.use_working_dir ELSE cwd
               /\ IF ChdirFailed(r)
                  THEN Error("unable to change directory", fds) /\ ExitWith("failure")
                  ELSE pc' = next /\ UNCHANGED <<diag, exit_status>>
  /\ UNCHANGED <<cfgVars, limVars, fsVars, childVars, streamLocals, pidVars,
                 k, saved_stderr_fd, fds, uid>>

(* --------------------------- main(): 480-491 -------------------------- *)
CloseFailedMutant(fd_close_status) == fd_close_status < -1

\* the test of line 486
CloseFailed(fd_close_status) == fd_close_status < 0

\* close(2): fails (EBADF) exactly when the descriptor is not open
CloseFd ==
  /\ pc = "close_fds"
  /\ k < config.num_fds_to_close
  /\ LET fd == config.fds_to_close[k + 1]
         fd_close_status == IF IsOpen(fds, fd) THEN 0 ELSE -1
     IN /\ Log(Ev("close", fd, NoPath, fd_close_status = 0))
        /\ fds' = IF fd_close_status = 0 THEN [fds EXCEPT ![fd] = Closed] ELSE fds
        /\ IF CloseFailed(fd_close_status)
           THEN /\ Error("unable to close file descriptor", fds) /\ ExitWith("failure")
                /\ UNCHANGED k
           ELSE /\ k' = k + 1
                /\ pc' = IF k + 1 < config.num_fds_to_close THEN "close_fds"
                         ELSE IF RedirectStreams(config.keep_open) THEN "close_stdin" ELSE "fork"
                /\ UNCHANGED <<diag, exit_status>>
  /\ UNCHANGED <<cfgVars, limVars, fsVars, childVars, streamLocals, pidVars,
                 saved_stderr_fd, cwd, uid>>

(* ------------------------ files and descriptors ----------------------- *)
\* dup2(oldfd, 2) succeeds exactly when oldfd is an open descriptor
Dup2Ok(tab, oldfd) == IsOpen(tab, oldfd)
\* ... and makes descriptor 2 a copy of it without the close-on-exec flag
\* (nothing changes when oldfd is 2 itself)
Dup2(tab, oldfd) ==
  IF oldfd = STDERR_FILENO THEN tab
  ELSE [tab EXCEPT ![STDERR_FILENO] = [tab[oldfd] EXCEPT !.cloexec = FALSE]]

\* the failure idiom of main(): restore descriptor 2 from the saved duplicate
\* and report only if that worked
RestoredTab(tab) == IF Dup2Ok(tab, saved_stderr_fd) THEN Dup2(tab, saved_stderr_fd) ELSE tab
Report(m, tab) ==
  diag' = IF Dup2Ok(tab, saved_stderr_fd) THEN Append(diag, Msg(m, RestoredTab(tab))) ELSE diag
Dup2Ev(tab) == Ev("dup2", saved_stderr_fd, NoPath, Dup2Ok(tab, saved_stderr_fd))

\* the inode a newly created file gets
NewIno ==
  LET free == {n \in Inodes : n # NullIno /\ \A q \in Paths : ino[q] # n}
  IN CHOOSE n \in free : \A m \in free : n <= m

\* can open(2) of path succeed in stdio mode m ("r", "w" or "a")
OpenOk(path, m) ==
  IF ino[path] = 0 THEN m # "r" /\ dir_writable
  ELSE IF m = "r" THEN perm[ino[path]].r ELSE perm[ino[path]].w

InoAfterOpen(path) == IF ino[path] = 0 THEN NewIno ELSE ino[path]

\* does stdio mode m carry O_TRUNC
Truncates(m) == m = "w"

\* effect of a successful open(2) on the file system: O_CREAT creates the
\* file, O_TRUNC empties it
FsOpen(path, m) ==
  LET n == InoAfterOpen(path)
  IN /\ ino' = [ino EXCEPT ![path] = n]
     /\ content' = IF Truncates(m) \/ ino[path] = 0 THEN [content EXCEPT ![n] = <<>>] ELSE content
     /\ truncs' = IF Truncates(m) /\ ino[path] # 0 THEN [truncs EXCEPT ![n] = @ + 1] ELSE truncs

(* --------------------------- main(): 495-513 -------------------------- *)
StdCloseFailedMutant(status) == status < -1

\* the test of lines 498, 503 and 508 on the result of close
StdCloseFailed(status) == status < 0

CloseStdin ==
  /\ pc = "close_stdin"
  /\ LET ok == IsOpen(fds, STDIN_FILENO)
     IN /\ Log(Ev("close", STDIN_FILENO, NoPath, ok))
        /\ IF ~StdCloseFailed(IF ok THEN 0 ELSE -1)
           THEN /\ fds' = [fds EXCEPT ![STDIN_FILENO] = Closed]
                /\ pc' = "close_stdout" /\ UNCHANGED <<diag, exit_status>>
           ELSE Error("unable to close stdin", fds) /\ ExitWith("failure") /\ UNCHANGED fds
  /\ UNCHANGED <<cfgVars, limVars, fsVars, childVars, streamLocals, pidVars,
                 k, saved_stderr_fd, cwd, uid>>

CloseStdout ==
  /\ pc = "close_stdout"
  /\ LET ok == IsOpen(fds, STDOUT_FILENO)
     IN /\ Log(Ev("close", STDOUT_FILENO, NoPath, ok))
        /\ IF ~StdCloseFailed(IF ok THEN 0 ELSE -1)
           THEN /\ fds' = [fds EXCEPT ![STDOUT_FILENO] = Closed]
                /\ pc' = "close_stderr" /\ UNCHANGED <<diag, exit_status>>
           ELSE Error("unable to close stdout", fds) /\ ExitWith("failure") /\ UNCHANGED fds
  /\ UNCHANGED <<cfgVars, limVars, fsVars, childVars, streamLocals, pidVars,
                 k, saved_stderr_fd, cwd, uid>>

CloseStderr ==
  /\ pc = "close_stderr"
  /\ LET ok == IsOpen(fds, STDERR_FILENO)
     IN IF ~StdCloseFailed(IF ok THEN 0 ELSE -1)
        THEN /\ fds' = [fds EXCEPT ![STDERR_FILENO] = Closed]
             /\ Log(Ev("close", STDERR_FILENO, NoPath, ok))
             /\ pc' = "reopen_stdin" /\ UNCHANGED <<diag, exit_status>>
        ELSE /\ fds' = RestoredTab(fds)
             /\ Report("failed to close standard error", fds)
             /\ trace' = trace \o <<Ev("close", STDERR_FILENO, NoPath, FALSE), Dup2Ev(fds)>>
             /\ ExitWith("failure")
  /\ UNCHANGED <<cfgVars, limVars, fsVars, childVars, streamLocals, pidVars,
                 k, saved_stderr_fd, cwd, uid>>

(* ----------------------- main(): 515-561, freopen --------------------- *)
\* freopen(path, m, stream of descriptor fd): on success the descriptor
\* refers to the newly opened file, on failure it is left closed
Freopen(here, fd, path, m, text, next) ==
  /\ pc = here
  /\ IF OpenOk(path, m)
     THEN /\ FsOpen(path, m)
          /\ fds' = [fds EXCEPT ![fd] = File(InoAfterOpen(path), m)]
          /\ Log(Ev("freopen", fd, path, TRUE))
          /\ pc' = next
          /\ UNCHANGED <<diag, exit_status>>
     ELSE /\ fds' = RestoredTab([fds EXCEPT ![fd] = Closed])
          /\ Report(text, [fds EXCEPT ![fd] = Closed])
          /\ trace' = trace \o <<Ev("freopen", fd, path, FALSE),
                                 Dup2Ev([fds EXCEPT ![fd] = Closed])>>
          /\ ExitWith("failure")
          /\ UNCHANGED fsVars
  /\ UNCHANGED <<cfgVars, limVars, childVars, streamLocals, pidVars,
                 k, saved_stderr_fd, cwd, uid>>

ReopenStdin ==
  Freopen("reopen_stdin", STDIN_FILENO, config.use_stdin_file, "r",
          "failed to redirect standard input", "same_file")

\* same_file(fn1, fn2) (345-371) and the choice of the open mode (525-537).
\* stat fails with ENOENT for a missing path; creat fails (EACCES) when the
\* file cannot be created
SameFile ==
  /\ pc = "same_file"
  /\ LET fn1 == config.use_stdout_file
         fn2 == config.use_stderr_file
         creating == ino[fn1] = 0
         ino1 == IF creating THEN [ino EXCEPT ![fn1] = NewIno] ELSE ino
     IN IF creating /\ ~dir_writable
        THEN \* creat failed, errno is not ENOENT: fatal
             /\ fds' = RestoredTab(fds)
             /\ Report("stat() error", fds)
             /\ trace' = trace \o <<Ev("stat", -1, fn1, FALSE), Ev("creat", -1, fn1, FALSE), Dup2Ev(fds)>>
             /\ ExitWith("failure")
             /\ UNCHANGED <<fsVars, streamLocals>>
        ELSE /\ ino' = ino1
             /\ content' = IF creating THEN [content EXCEPT ![NewIno] = <<>>] ELSE content
             /\ trace' = trace \o (IF creating
                                   THEN <<Ev("stat", -1, fn1, FALSE), Ev("creat", -1, fn1, TRUE)>>
                                   ELSE <<Ev("stat", -1, fn1, TRUE)>>)
                               \o <<Ev("stat", -1, fn2, ino1[fn2] # 0)>>
             /\ outerr_same' = IF ino1[fn2] = 0 THEN -1
                               ELSE IF ino1[fn1] = ino1[fn2] THEN 1 ELSE 0
             /\ open_mode' = IF ino1[fn2] # 0 /\ ino1[fn1] = ino1[fn2] THEN "a" ELSE "w"
             /\ pc' = "reopen_stdout"
             /\ UNCHANGED <<fds, diag, exit_status, truncs>>
  /\ UNCHANGED <<cfgVars, limVars, childVars, pidVars, k, saved_stderr_fd, cwd, uid>>

ReopenStdout ==
  Freopen("reopen_stdout", STDOUT_FILENO, config.use_stdout_file, open_mode,
          "failed to redirect standard output",
          IF outerr_same = 1 THEN "truncate" ELSE "reopen_stderr")

AfterTruncateMutant(ok) == IF ok THEN "reopen_stderr" ELSE "fork"

\* after the truncation block (546-552) the run goes on to the reopen of
\* stderr, whatever ftruncate returned
AfterTruncate(ok) == "reopen_stderr"

\* ftruncate(1, 0) (546-552): EINVAL unless descriptor 1 is a regular file,
\* and it can fail on a regular file too (EPERM on an append-only file, EIO).
\* A failure is reported but the run goes on.
Truncate ==
  /\ pc = "truncate"
  /\ \E ok \in {TRUE, FALSE} \ (IF fds[STDOUT_FILENO].ref = NullIno THEN {TRUE} ELSE {}) :
     LET n == fds[STDOUT_FILENO].ref
     IN /\ IF ok
           THEN /\ content' = [content EXCEPT ![n] = <<>>]
                /\ truncs' = [truncs EXCEPT ![n] = @ + 1]
                /\ Log(Ev("ftruncate", STDOUT_FILENO, NoPath, TRUE))
                /\ UNCHANGED <<fds, diag, ino>>
           ELSE /\ fds' = RestoredTab(fds)
                /\ Report("truncate() error", fds)
                /\ trace' = trace \o <<Ev("ftruncate", STDOUT_FILENO, NoPath, FALSE), Dup2Ev(fds)>>
                /\ UNCHANGED fsVars
        /\ pc' = AfterTruncate(ok)
  /\ UNCHANGED <<cfgVars, limVars, childVars, streamLocals, pidVars,
                 k, saved_stderr_fd, exit_status, cwd, uid>>

ReopenStderr ==
  Freopen("reopen_stderr", STDERR_FILENO, config.use_stderr_file, open_mode,
          "failed to redirect standard error", "fork")

(* --------------------------- main(): 565, 599-605 --------------------- *)
AfterForkMutant(pid_file) == "wait_child"

\* where the parent goes on after a successful fork (609-612): to the pid
\* file when one is configured, else straight to its exit
AfterFork(pid_file) == IF pid_file # NoPath THEN "pid_access" ELSE "parent_exit"

ForkFailedMutant(pid) == pid < -1

\* the test of line 599
ForkFailed(pid) == pid < 0

\* fork returns the pid of the new child to the parent, or -1 with no child
Fork ==
  /\ pc = "fork"
  /\ \E r \in Pids \cup {-1} :
       /\ child_pid' = r
       /\ IF ForkFailed(r)
          THEN /\ fds' = RestoredTab(fds)
               /\ Report("fork() failed", fds)
               /\ trace' = trace \o <<Ev("fork", -1, NoPath, FALSE), Dup2Ev(fds)>>
               /\ ExitWith("failure")
               /\ UNCHANGED childVars
          ELSE /\ IF r > 0
                  THEN /\ cpid' = r
                       /\ cfds' = fds
                       /\ cpc' = "c_umask"
                       /\ cexit' = "running"
                       /\ UNCHANGED <<cumask, csid, ctrace>>
                  ELSE UNCHANGED childVars
               /\ Log(Ev("fork", r, NoPath, r > 0))
               /\ pc' = AfterFork(config.use_pid_file)
               /\ UNCHANGED <<fds, diag, exit_status>>
  /\ UNCHANGED <<cfgVars, limVars, fsVars, streamLocals, pid_fd, pid_buf,
                 k, saved_stderr_fd, cwd, uid>>

(* ---------------------- main(): 570-596, the child -------------------- *)
CLog(e) == ctrace' = Append(ctrace, e)
parentVars == <<pc, exit_status, i, k, outerr_same, open_mode, child_pid, pid_fd,
                pid_buf, rlim, limit_log, fds, ino, content, truncs, cwd, uid, trace,
                saved_stderr_fd>>

ChildUmask ==
  /\ cpc = "c_umask"
  /\ IF config.umask >= 0
     THEN cumask' = config.umask /\ CLog(Ev("umask", -1, NoPath, TRUE))
     ELSE UNCHANGED <<cumask, ctrace>>
  /\ cpc' = "c_setsid"
  /\ UNCHANGED <<cfgVars, parentVars, cexit, cfds, csid, cpid, diag>>

SetsidFailedMutant(session_pid) == session_pid < -1

\* the test of line 581
SetsidFailed(session_pid) == session_pid < 0

\* setsid() returns the new session id, the caller's pid, or -1
ChildSetsid ==
  /\ cpc = "c_setsid"
  /\ \E session_pid \in {cpid, -1} :
       /\ csid' = IF session_pid = -1 THEN csid ELSE session_pid
       /\ IF SetsidFailed(session_pid)
          THEN /\ cfds' = RestoredTab(cfds)
               /\ Report("setsid() failed", cfds)
               /\ ctrace' = ctrace \o <<Ev("setsid", -1, NoPath, FALSE), Dup2Ev(cfds)>>
               /\ cpc' = "c_done" /\ cexit' = "failure"
          ELSE /\ CLog(Ev("setsid", -1, NoPath, session_pid # -1))
               /\ cpc' = "c_exec"
               /\ UNCHANGED <<cexit, cfds, diag>>
  /\ UNCHANGED <<cfgVars, parentVars, cumask, cpid>>

\* execvp: descriptors with the close-on-exec flag are closed, the others
\* are inherited by the target program
ChildExec ==
  /\ cpc = "c_exec"
  /\ \/ /\ cfds' = [fd \in Fds |-> IF cfds[fd].cloexec THEN Closed ELSE cfds[fd]]
        /\ CLog(Ev("execvp", -1, NoPath, TRUE))
        /\ cpc' = "c_done" /\ cexit' = "execd"
        /\ UNCHANGED diag
     \/ /\ cfds' = RestoredTab(cfds)
        /\ Report("execvp() failed", cfds)
        /\ ctrace' = ctrace \o <<Ev("execvp", -1, NoPath, FALSE), Dup2Ev(cfds)>>
        /\ cpc' = "c_done" /\ cexit' = "failure"
  /\ UNCHANGED <<cfgVars, parentVars, cumask, csid, cpid>>

(* ---------------------- main(): 609-645, the parent ------------------- *)
PidAccess ==
  /\ pc = "pid_access"
  /\ LET r == Access(config.use_pid_file, "w")
     IN IF r = "eacces"
        THEN /\ fds' = RestoredTab(fds)
             /\ Report("file specified with -p is not writable", fds)
             /\ trace' = trace \o <<Ev("access", -1, config.use_pid_file, FALSE), Dup2Ev(fds)>>
             /\ ExitWith("failure")
        ELSE /\ Log(Ev("access", -1, config.use_pid_file, TRUE))
             /\ pc' = "pid_open"
             /\ UNCHANGED <<fds, diag, exit_status>>
  /\ UNCHANGED <<cfgVars, limVars, fsVars, childVars, streamLocals, pidVars,
                 k, saved_stderr_fd, cwd, uid>>

PidOpenModeMutant == "a"

\* the stdio mode of the pid file (621)
PidOpenMode == "w"

\* fopen (621-628): the failure is reported without restoring descriptor 2
PidOpen ==
  /\ pc = "pid_open"
  /\ LET path == config.use_pid_file
     IN IF OpenOk(path, PidOpenMode) /\ FreeFds(fds) # {}
        THEN /\ FsOpen(path, PidOpenMode)
             /\ fds' = [fds EXCEPT ![LowestFree(fds)] = File(InoAfterOpen(path), PidOpenMode)]
             /\ pid_fd' = LowestFree(fds)
             /\ Log(Ev("fopen", LowestFree(fds), path, TRUE))
             /\ pc' = "pid_write"
             /\ UNCHANGED <<diag, exit_status>>
        ELSE /\ Log(Ev("fopen", -1, path, FALSE))
             /\ Error("unable to write pid file", fds)
             /\ ExitWith("failure")
             /\ UNCHANGED <<fsVars, fds, pid_fd>>
  /\ UNCHANGED <<cfgVars, limVars, childVars, streamLocals, child_pid, pid_buf,
                 k, saved_stderr_fd, cwd, uid>>

Digits == <<"0", "1", "2", "3", "4", "5", "6", "7", "8", "9">>

DecimalMutant(n) == <<Digits[(n % 10) + 1]>>

\* "%d" of an int
RECURSIVE Decimal(_)
Decimal(n) ==
  IF n < 0 THEN <<"-">> \o Decimal(-n)
  ELSE IF n < 10 THEN <<Digits[n + 1]>>
  ELSE Append(Decimal(n \div 10), Digits[(n % 10) + 1])

\* the test made on the result of fprintf (631)
WriteFailed(nc) == nc = 0

\* fprintf(pid_file, "%d\n", child_pid) (630-637): the text goes to the
\* stream buffer and its length is returned, or a negative value on error
PidWrite ==
  /\ pc = "pid_write"
  /\ \E ok \in BOOLEAN :
       LET text == Append(Decimal(child_pid), "\n")
           nc == IF ok THEN Len(text) ELSE -1
       IN /\ pid_buf' = IF ok THEN text ELSE <<>>
          /\ IF WriteFailed(nc)
             THEN /\ fds' = RestoredTab(fds)
                  /\ Report("unable to write data to pid file", fds)
                  /\ trace' = trace \o <<Ev("fprintf", pid_fd, NoPath, FALSE), Dup2Ev(fds)>>
                  /\ ExitWith("failure")
             ELSE /\ Log(Ev("fprintf", pid_fd, NoPath, ok))
                  /\ pc' = "pid_close"
                  /\ UNCHANGED <<fds, diag, exit_status>>
  /\ UNCHANGED <<cfgVars, limVars, fsVars, childVars, streamLocals, child_pid, pid_fd,
                 k, saved_stderr_fd, cwd, uid>>

\* write(2) of buf through a descriptor opened in mode m and not written
\* before: at the end of the file with O_APPEND, else at offset 0
Write(old, buf, m) ==
  IF m = "a" THEN old \o buf ELSE buf \o SubSeq(old, Len(buf) + 1, Len(old))

\* fclose(pid_file) (640): the buffer is written back (the result is not
\* looked at) and the descriptor is closed
PidClose ==
  /\ pc = "pid_close"
  /\ LET n == fds[pid_fd].ref
         ok == ~disk_full
     IN /\ content' = IF ok /\ pid_buf # <<>> THEN [content EXCEPT ![n] = Write(@, pid_buf, fds[pid_fd].mode)]
                      ELSE content
        /\ Log(Ev("fclose", pid_fd, NoPath, ok))
  /\ fds' = [fds EXCEPT ![pid_fd] = Closed]
  /\ pid_buf' = <<>>
  /\ pc' = "parent_exit"
  /\ UNCHANGED <<cfgVars, limVars, childVars, streamLocals, child_pid, pid_fd,
                 k, saved_stderr_fd, exit_status, ino, truncs, cwd, uid, diag>>

ParentExitStatusMutant(child_outcome) == IF child_outcome = "failure" THEN "failure" ELSE "success"

\* the status of line 644, whatever has become of the child
ParentExitStatus(child_outcome) == "success"

\* 643-644
ParentExit ==
  /\ pc = "parent_exit"
  /\ child_pid' = 0
  /\ ExitWith(ParentExitStatus(cexit))
  /\ UNCHANGED <<cfgVars, limVars, fsVars, childVars, streamLocals, pid_fd, pid_buf,
                 k, saved_stderr_fd, fds, cwd, uid, trace, diag>>

(* ------------------------------- Init --------------------------------- *)
\* iexec_config_set_default_values (149-165), with a target program given
DefaultConfig ==
  [remaining_argc |-> 1, keep_open |-> FALSE, umask |-> -1,
   use_stdin_file |-> DevNull, use_stdout_file |-> DevNull, use_stderr_file |-> DevNull,
   use_pid_file |-> NoPath, use_working_dir |-> NoPath,
   fds_to_close |-> <<>>, num_fds_to_close |-> 0, username |-> NoPath,
   soft_limits |-> [n \in Kinds |-> IEXEC_RLIMIT_UNCHANGED],
   hard_limits |-> [n \in Kinds |-> IEXEC_RLIMIT_UNCHANGED]]

\* values an option can request: unchanged, infinity (-1) or a finite value
Requests == {IEXEC_RLIMIT_UNCHANGED, -1} \cup (0 .. MaxLimit)
LimitValues == (0 .. MaxLimit) \cup {RLIM_INFINITY}
\* pairs the OS can hold: soft never above hard
CurPairs == {p \in [cur : LimitValues, max : LimitValues] : p.cur <= p.max}
FewRequests == {<<IEXEC_RLIMIT_UNCHANGED, IEXEC_RLIMIT_UNCHANGED>>, <<0, IEXEC_RLIMIT_UNCHANGED>>,
                <<IEXEC_RLIMIT_UNCHANGED, 0>>, <<-1, -1>>}
FewPairs == {[cur |-> 0, max |-> MaxLimit]}

\* the streams of a launching caller that hands over 0, 1 and 2 only
StdFds == [fd \in Fds |-> IF fd <= STDERR_FILENO THEN Orig(fd) ELSE Closed]
\* descriptor tables a caller can hand over: at most one of 0, 1, 2 closed,
\* descriptor 3 open or not
LaunchFds ==
  {[fd \in Fds |-> IF fd = c \/ (fd > STDERR_FILENO /\ ~(fd = 3 /\ extra)) THEN Closed ELSE Orig(fd)] :
     c \in {-1, 0, 1, 2}, extra \in BOOLEAN}

Perms == [r : BOOLEAN, w : BOOLEAN]
RW == [r |-> TRUE, w |-> TRUE]
\* file systems: the null device, "a" and "b" missing, separate or linked
FileSystems ==
  {f \in [Paths -> 0 .. 3] :
     /\ f[DevNull] = NullIno
     /\ f["a"] \in {0, 2}
     /\ f["b"] \in {0, 3} \cup (IF f["a"] = 2 THEN {2} ELSE {})}
InitFs(f) ==
  /\ ino = f
  /\ content = [n \in Inodes |-> IF n # NullIno /\ \E q \in Paths : f[q] = n
                                 THEN OldContent ELSE <<>>]
  /\ truncs = [n \in Inodes |-> 0]
PlainFs == [q \in Paths |-> IF q = DevNull THEN NullIno ELSE IF q = "a" THEN 2 ELSE 0]
AllRW == [n \in Inodes |-> RW]

BoundedSeqs(S, n) == UNION {[1 .. m -> S] : m \in 0 .. n}

InitLocals ==
  /\ pc = "check_args" /\ cpc = "none"
  /\ exit_status = "running" /\ cexit = "none"
  /\ i = 0 /\ k = 0
  /\ saved_stderr_fd = 2
  /\ outerr_same = 0 /\ open_mode = "a"
  /\ child_pid = 0 /\ pid_fd = -1 /\ pid_buf = <<>>
  /\ cfds = [fd \in Fds |-> Closed]
  /\ cwd = "orig" /\ uid = "caller"
  /\ cumask = -1 /\ csid = 0 /\ cpid = 0
  /\ trace = <<>> /\ ctrace = <<>> /\ limit_log = <<>> /\ diag = <<>>

DefaultLimits == [n \in Kinds |-> [cur |-> MaxLimit, max |-> RLIM_INFINITY]]

\* a run that uses every stage: one explicit close, a pid file, streams
\* kept open or redirected to the null device
Baseline ==
  /\ InitLocals
  /\ \E ko \in BOOLEAN :
       config = [DefaultConfig EXCEPT !.fds_to_close = <<3>>, !.num_fds_to_close = 1,
                                      !.use_pid_file = "a", !.keep_open = ko]
  /\ rlim = DefaultLimits /\ rlim0 = DefaultLimits /\ cap = FALSE
  /\ fds = [fd \in Fds |-> IF fd <= 3 THEN Orig(fd) ELSE Closed] /\ fds0 = fds
  /\ InitFs(PlainFs) /\ perm = AllRW
  /\ dir_writable = TRUE /\ disk_full = FALSE

\* the limit options and the current pairs vary: one kind over everything,
\* the other kinds over a few requests; the streams are kept open, or
\* redirected with no limit requested
VaryLimits ==
  /\ InitLocals
  /\ \E focus \in Kinds, fs \in Requests, fh \in Requests, fp \in CurPairs,
        others \in [Kinds -> FewRequests], op \in [Kinds -> FewPairs] :
       LET sl == [n \in Kinds |-> IF n = focus THEN fs ELSE others[n][1]]
           hl == [n \in Kinds |-> IF n = focus THEN fh ELSE others[n][2]]
           r == [n \in Kinds |-> IF n = focus THEN fp ELSE op[n]]
       IN /\ \/ config = [DefaultConfig EXCEPT !.soft_limits = sl, !.hard_limits = hl,
                                               !.keep_open = TRUE]
             \/ /\ \A n \in Kinds : sl[n] = IEXEC_RLIMIT_UNCHANGED /\ hl[n] = IEXEC_RLIMIT_UNCHANGED
                /\ config = DefaultConfig
          /\ rlim = r /\ rlim0 = r
  /\ cap \in BOOLEAN
  /\ fds = StdFds /\ fds0 = StdFds
  /\ InitFs(PlainFs) /\ perm = AllRW
  /\ dir_writable = TRUE /\ disk_full = FALSE

\* the stream paths and the file system vary
VaryStreams ==
  /\ InitLocals
  /\ \E in \in {DevNull, "a"}, out \in Paths, err \in Paths :
       config = [DefaultConfig EXCEPT !.use_stdin_file = in, !.use_stdout_file = out,
                                      !.use_stderr_file = err]
  /\ rlim = DefaultLimits /\ rlim0 = DefaultLimits /\ cap = FALSE
  /\ fds = StdFds /\ fds0 = StdFds
  /\ \E f \in FileSystems : InitFs(f)
  /\ perm \in {p \in [Inodes -> Perms] :
                 \A n \in Inodes : (n = NullIno \/ \A q \in Paths : ino[q] # n) => p[n] = RW}
  /\ dir_writable \in BOOLEAN /\ disk_full = FALSE

\* the descriptors handed over by the caller and the explicit close list vary
VaryFds ==
  /\ InitLocals
  /\ \E l \in BoundedSeqs(Fds, MaxCloseLen), pf \in {NoPath, "a"}, ko \in BOOLEAN :
       config = [DefaultConfig EXCEPT !.fds_to_close = l, !.num_fds_to_close = Len(l),
                                      !.use_pid_file = pf, !.keep_open = ko]
  /\ rlim = DefaultLimits /\ rlim0 = DefaultLimits /\ cap = FALSE
  /\ fds \in LaunchFds /\ fds0 = fds
  /\ InitFs(PlainFs) /\ perm = AllRW
  /\ dir_writable = TRUE /\ disk_full = FALSE

\* user, directory, umask, target program and pid file vary
VaryDaemon ==
  /\ InitLocals
  /\ \E argc \in {0, 1}, ko \in BOOLEAN, um \in {-1, 18}, user \in {NoPath, "daemon"},
        wd \in {NoPath, "/"}, pf \in {NoPath, "a", "b"}, err \in {DevNull, "a"} :
       config = [DefaultConfig EXCEPT !.remaining_argc = argc, !.keep_open = ko, !.umask = um,
                                      !.username = user, !.use_working_dir = wd,
                                      !.use_pid_file = pf, !.use_stderr_file = err]
  /\ rlim = DefaultLimits /\ rlim0 = DefaultLimits /\ cap = FALSE
  /\ fds = StdFds /\ fds0 = StdFds
  /\ \E f \in {g \in FileSystems : g["b"] = 0} : InitFs(f)
  /\ perm \in {p \in [Inodes -> {RW, [r |-> TRUE, w |-> FALSE]}] :
                 \A n \in Inodes : (n = NullIno \/ \A q \in Paths : ino[q] # n) => p[n] = RW}
  /\ dir_writable \in BOOLEAN /\ disk_full \in BOOLEAN

\* the setup stages vary together: a limit request for kind 0, a user, a
\* working directory and an explicit close list
SetupRequests == {<<IEXEC_RLIMIT_UNCHANGED, IEXEC_RLIMIT_UNCHANGED>>, <<0, IEXEC_RLIMIT_UNCHANGED>>,
                  <<IEXEC_RLIMIT_UNCHANGED, -1>>}
SetupLimits == [n \in Kinds |-> IF n = 0 THEN [cur |-> 0, max |-> MaxLimit]
                                ELSE [cur |-> MaxLimit, max |-> RLIM_INFINITY]]
VarySetup ==
  /\ InitLocals
  /\ \E rq \in SetupRequests, user \in {NoPath, "daemon"}, wd \in {NoPath, "/"},
        l \in BoundedSeqs({0, 3}, MaxCloseLen), ko \in BOOLEAN :
       config = [DefaultConfig EXCEPT !.soft_limits[0] = rq[1], !.hard_limits[0] = rq[2],
                                      !.username = user, !.use_working_dir = wd,
                                      !.fds_to_close = l, !.num_fds_to_close = Len(l),
                                      !.keep_open = ko]
  /\ rlim = SetupLimits /\ rlim0 = SetupLimits /\ cap \in BOOLEAN
  /\ \E extra \in BOOLEAN :
       fds = [fd \in Fds |-> IF fd <= STDERR_FILENO \/ (fd = 3 /\ extra) THEN Orig(fd) ELSE Closed]
  /\ fds0 = fds
  /\ InitFs(PlainFs) /\ perm = AllRW
  /\ dir_writable = TRUE /\ disk_full = FALSE

InitLimits == VaryLimits \/ Baseline
InitSetup == VarySetup \/ Baseline
InitStreams == VaryStreams \/ Baseline
InitFds == VaryFds \/ Baseline
InitDaemon == VaryDaemon \/ Baseline
Init == VaryLimits \/ VaryStreams \/ VaryFds \/ VaryDaemon \/ VarySetup \/ Baseline

(* ------------------------------- Next --------------------------------- *)
Next ==
  \/ CheckArgs
  \/ AdjustLimit
  \/ ChangeUser
  \/ AccessStdin
  \/ AccessStdout
  \/ AccessStderr
  \/ DupStderr
  \/ Chdir
  \/ CloseFd
  \/ CloseStdin
  \/ CloseStdout
  \/ CloseStderr
  \/ ReopenStdin
  \/ SameFile
  \/ ReopenStdout
  \/ Truncate
  \/ ReopenStderr
  \/ Fork
  \/ ChildUmask
  \/ ChildSetsid
  \/ ChildExec
  \/ PidAccess
  \/ PidOpen
  \/ PidWrite
  \/ PidClose
  \/ ParentExit

\* the steps of the launcher (the parent after fork) and of the child
ParentStep ==
  \/ CheckArgs \/ AdjustLimit \/ ChangeUser \/ AccessStdin \/ AccessStdout \/ AccessStderr
  \/ DupStderr \/ Chdir \/ CloseFd \/ CloseStdin \/ CloseStdout \/ CloseStderr
  \/ ReopenStdin \/ SameFile \/ ReopenStdout \/ Truncate \/ ReopenStderr \/ Fork
  \/ PidAccess \/ PidOpen \/ PidWrite \/ PidClose \/ ParentExit
ChildStep == ChildUmask \/ ChildSetsid \/ ChildExec

Spec == Init /\ [][Next]_vars
SpecLimits == InitLimits /\ [][Next]_vars
SpecStreams == InitStreams /\ [][Next]_vars
SpecFds == InitFds /\ [][Next]_vars
SpecDaemon == InitDaemon /\ [][Next]_vars
SpecSetup == InitSetup /\ [][Next]_vars
\* parent and child are two processes of the OS scheduler: each one that can
\* take a step eventually takes it
SpecTermination ==
  InitDaemon /\ [][Next]_vars /\ WF_vars(ParentStep) /\ WF_vars(ChildStep)

(* ============================ properties ============================== *)
Has(t, op) == \E j \in 1 .. Len(t) : t[j].op = op
HasOk(t, op) == \E j \in 1 .. Len(t) : t[j].op = op /\ t[j].ok
HasFailed(t, op) == \E j \in 1 .. Len(t) : t[j].op = op /\ ~t[j].ok

\* C1: in the child the umask is applied first and only when one was
\* requested, the session is created next, and execvp is called only after
\* setsid succeeded: a child that became the target program leads a new
\* session (session id = its pid), and a child whose setsid failed has
\* exited with failure without calling execvp.
C1_ChildOrder ==
  /\ \A j \in 1 .. Len(ctrace) :
       /\ ctrace[j].op = "execvp" =>
            \E h \in 1 .. (j - 1) : ctrace[h].op = "setsid" /\ ctrace[h].ok
       /\ ctrace[j].op = "setsid" =>
            IF config.umask >= 0
            THEN j = 2 /\ ctrace[1].op = "umask" /\ cumask = config.umask
            ELSE j = 1 /\ cumask = -1
       /\ ctrace[j].op = "umask" => j = 1 /\ config.umask >= 0
  /\ cexit = "execd" => csid = cpid /\ cpid \in Pids /\ HasOk(ctrace, "execvp")
  /\ HasFailed(ctrace, "setsid") => cexit = "failure" /\ ~Has(ctrace, "execvp") /\ csid # cpid
  /\ cpc = "c_exec" => csid = cpid

C1_Witness == cexit = "execd" /\ config.umask >= 0 /\ csid = cpid /\ Len(ctrace) = 3

\* a requested soft value of kind n lies above the finite hard ceiling the
\* run started with (-1 requests infinity)
SoftAboveHard(n) ==
  /\ config.soft_limits[n] > IEXEC_RLIMIT_UNCHANGED
  /\ rlim0[n].max # RLIM_INFINITY
  /\ (config.soft_limits[n] = -1 \/ config.soft_limits[n] > rlim0[n].max)

\* C2: when some requested soft value exceeds the finite hard ceiling the
\* run started with, the run never leaves the limit stage: it ends with
\* failure, fork is never called and no child exists, whatever hard value
\* is requested for the same kind.
C2_SoftAboveHardFails ==
  (config.remaining_argc > 0 /\ \E n \in Kinds : SoftAboveHard(n)) =>
     /\ pc \in {"check_args", "limits", "done"}
     /\ pc = "done" => exit_status = "failure"
     /\ cpc = "none" /\ child_pid = 0 /\ ~Has(trace, "fork")
     /\ \A n \in Kinds : SoftAboveHard(n) => rlim[n] = rlim0[n] /\ i <= n

C2_Witness ==
  /\ pc = "done" /\ exit_status = "failure" /\ cap
  /\ \E n \in Kinds : /\ SoftAboveHard(n) /\ i = n
                      /\ config.hard_limits[n] > config.soft_limits[n]
                      /\ config.soft_limits[n] >= 0

\* the requested hard value of kind n is finite and lower than the soft
\* value that results from overlaying the request on the current pair
ClampCase(n) ==
  /\ config.hard_limits[n] >= 0
  /\ (IF config.soft_limits[n] > IEXEC_RLIMIT_UNCHANGED
      THEN config.soft_limits[n] = -1 \/ config.soft_limits[n] > config.hard_limits[n]
      ELSE rlim0[n].cur > config.hard_limits[n])

\* C3: clamp law. In the clamp case every pair handed to setrlimit for the
\* kind has soft = hard = the requested hard value and the call succeeds;
\* once the loop is past the kind the OS holds that pair; the only failure
\* exit at that kind is the rejection of a requested soft value above the
\* current hard ceiling.
C3_ClampLaw ==
  \A n \in Kinds : ClampCase(n) =>
     /\ \A j \in 1 .. Len(limit_log) : limit_log[j].kind = n =>
          /\ limit_log[j].cur = config.hard_limits[n]
          /\ limit_log[j].max = config.hard_limits[n]
          /\ limit_log[j].ok
     /\ (pc # "check_args" /\ i > n) =>
          rlim[n] = [cur |-> config.hard_limits[n], max |-> config.hard_limits[n]]
     /\ (pc = "done" /\ exit_status = "failure" /\ i = n /\ config.remaining_argc > 0) =>
          SoftAboveHard(n)

C3_Witness ==
  /\ pc = "done" /\ exit_status = "success"
  /\ \E n \in Kinds : /\ ClampCase(n)
                      /\ rlim0[n].cur = RLIM_INFINITY
                      /\ rlim[n].cur = config.hard_limits[n]
  /\ \E n \in Kinds : ClampCase(n) /\ config.soft_limits[n] >= 0

\* C4: a kind for which neither a soft nor a hard value is requested keeps
\* the pair it had when the run started, and setrlimit is never called for
\* it, whatever is requested for the other kinds.
C4_Unrequested ==
  \A n \in Kinds :
    (config.soft_limits[n] = IEXEC_RLIMIT_UNCHANGED /\ config.hard_limits[n] = IEXEC_RLIMIT_UNCHANGED) =>
       /\ rlim[n] = rlim0[n]
       /\ \A j \in 1 .. Len(limit_log) : limit_log[j].kind # n

C4_Witness ==
  /\ pc = "done" /\ exit_status = "success"
  /\ \E n, m \in Kinds :
       /\ config.soft_limits[n] = IEXEC_RLIMIT_UNCHANGED
       /\ config.hard_limits[n] = IEXEC_RLIMIT_UNCHANGED
       /\ m # n /\ rlim[m] # rlim0[m]

StdFdSet == {STDIN_FILENO, STDOUT_FILENO, STDERR_FILENO}
Named(fd) == \E j \in 1 .. Len(config.fds_to_close) : config.fds_to_close[j] = fd

\* C5 as stated: with keep_open set, no descriptor among 0, 1, 2 is ever
\* closed or reopened, on any path of the run.
C5_KeepOpenNeverCloses ==
  config.keep_open =>
    \A j \in 1 .. Len(trace) :
      ~(trace[j].op \in {"close", "freopen"} /\ trace[j].fd \in StdFdSet /\ trace[j].ok)

\* C5 amended: with keep_open set the stream validation, the stderr
\* duplicate and the redirection stage are skipped and no configured stream
\* path is opened; a descriptor among 0, 1, 2 is closed only by the
\* explicit-close step when the list names it, and every one that was open at
\* launch and is not named keeps referring to the caller's stream in the
\* parent and in the child through exec.
C5_KeepOpenSkipsRedirection ==
  config.keep_open =>
    /\ \A j \in 1 .. Len(trace) :
         /\ trace[j].op \notin {"freopen", "ftruncate", "dup", "stat", "creat"}
         /\ trace[j].op = "access" => trace[j].path = config.use_pid_file
         /\ trace[j].op = "close" => Named(trace[j].fd)
    /\ saved_stderr_fd = STDERR_FILENO
    /\ \A fd \in StdFdSet : (IsOpen(fds0, fd) /\ ~Named(fd)) =>
         /\ fds[fd] = fds0[fd]
         /\ cpc # "none" => cfds[fd] = fds0[fd]

C5_Witness ==
  /\ config.keep_open /\ pc = "done" /\ exit_status = "success" /\ cexit = "execd"
  /\ Named(STDIN_FILENO) /\ fds[STDIN_FILENO] # fds0[STDIN_FILENO]
  /\ ~Named(STDERR_FILENO) /\ cfds[STDERR_FILENO] = Orig(STDERR_FILENO)
  /\ config.use_pid_file # NoPath

\* C6 as stated: after a successful fork with a pid file configured, a
\* failed validation, open or write of the pid file makes the parent exit
\* with failure, never with success.
C6_PidFailureFatal ==
  (pc = "done" /\ HasOk(trace, "fork") /\ config.use_pid_file # NoPath
     /\ (HasFailed(trace, "access") \/ HasFailed(trace, "fopen")
           \/ HasFailed(trace, "fprintf") \/ HasFailed(trace, "fclose")))
    => exit_status = "failure"

\* the text "%d\n" of the pids fork can return
PidText(p) == IF p = 7 THEN <<"7", "\n">>
              ELSE IF p = 120 THEN <<"1", "2", "0", "\n">> ELSE <<>>

\* C7: pid-file round trip. When the parent has exited and fork, the open
\* and the write (formatting and write-back) all succeeded, the content of
\* the pid file is exactly the decimal pid fork returned followed by one
\* newline, whatever the file held before.
C7_PidRoundTrip ==
  (pc = "done" /\ config.use_pid_file # NoPath /\ HasOk(trace, "fopen")
     /\ HasOk(trace, "fprintf") /\ HasOk(trace, "fclose")) =>
    /\ exit_status = "success"
    /\ ino[config.use_pid_file] # 0
    /\ \E j \in 1 .. Len(trace) :
         /\ trace[j].op = "fork" /\ trace[j].ok
         /\ content[ino[config.use_pid_file]] = PidText(trace[j].fd)
         /\ PidText(trace[j].fd) # <<>>

C7_Witness ==
  /\ pc = "done" /\ exit_status = "success" /\ config.use_pid_file = "a"
  /\ truncs[ino["a"]] >= 1
  /\ content[ino["a"]] = <<"1", "2", "0", "\n">>
  /\ config.use_stderr_file = "a"

\* C8: with no remaining arguments the run ends with failure at the first
\* step: no limit is read or set, identity and directory are unchanged, no
\* descriptor is closed or duplicated, no call is made and no child exists.
C8_NoProgram ==
  config.remaining_argc = 0 =>
    /\ pc \in {"check_args", "done"}
    /\ pc = "done" => exit_status = "failure" /\ Len(diag) = 1
    /\ trace = <<>> /\ limit_log = <<>> /\ i = 0 /\ k = 0
    /\ rlim = rlim0 /\ fds = fds0 /\ saved_stderr_fd = STDERR_FILENO
    /\ cwd = "orig" /\ uid = "caller"
    /\ cpc = "none" /\ child_pid = 0 /\ ctrace = <<>>
    /\ \A n \in Inodes : truncs[n] = 0

C8_Witness ==
  /\ config.remaining_argc = 0 /\ pc = "done" /\ exit_status = "failure"
  /\ config.username # NoPath /\ config.use_working_dir # NoPath
  /\ ~config.keep_open /\ config.use_pid_file # NoPath

\* position in the trace of the successful freopen of descriptor fd (0: none)
ReopenAt(fd) ==
  IF \E j \in 1 .. Len(trace) : trace[j].op = "freopen" /\ trace[j].fd = fd /\ trace[j].ok
  THEN CHOOSE j \in 1 .. Len(trace) : trace[j].op = "freopen" /\ trace[j].fd = fd /\ trace[j].ok
  ELSE 0

\* C9 as stated: when the redirection is complete, stdout and stderr on the
\* same file are both in append mode and the file was truncated exactly
\* once, between the two reopens; on different files both are in
\* write/truncate mode and both files are empty.
C9_SameFileTruncatedOnce ==
  (pc = "fork" /\ ~config.keep_open) =>
    LET n1 == ino[config.use_stdout_file]
        n2 == ino[config.use_stderr_file]
    IN IF n1 = n2
       THEN /\ fds[STDOUT_FILENO].mode = "a" /\ fds[STDERR_FILENO].mode = "a"
            /\ truncs[n1] = 1
            /\ \E j \in 1 .. Len(trace) :
                 /\ trace[j].op = "ftruncate" /\ trace[j].ok
                 /\ ReopenAt(STDOUT_FILENO) < j /\ j < ReopenAt(STDERR_FILENO)
       ELSE /\ fds[STDOUT_FILENO].mode = "w" /\ fds[STDERR_FILENO].mode = "w"
            /\ content[n1] = <<>> /\ content[n2] = <<>>

\* C10 as stated: when the closing of descriptors 0, 1, 2 is about to start,
\* the saved duplicate of stderr is an open descriptor with the close-on-exec
\* flag, and the program the child execs does not inherit it.
C10_SavedDuplicateValid ==
  /\ pc = "close_stdin" =>
       /\ IsOpen(fds, saved_stderr_fd)
       /\ fds[saved_stderr_fd].cloexec
  /\ (cexit = "execd" /\ ~config.keep_open) =>
       ~(IsOpen(cfds, saved_stderr_fd) /\ cfds[saved_stderr_fd].kind = "orig"
           /\ cfds[saved_stderr_fd].ref = STDERR_FILENO)

\* the operations whose failure is handled after the redirection has begun
LateOps == {"freopen", "creat", "ftruncate", "fork", "fopen", "fprintf", "setsid", "execvp"}
\* the messages of those failure paths
LateMessages ==
  {"failed to close standard error", "failed to redirect standard input", "stat() error",
   "failed to redirect standard output", "truncate() error", "failed to redirect standard error",
   "fork() failed", "setsid() failed", "execvp() failed", "file specified with -p is not writable",
   "unable to write pid file", "unable to write data to pid file"}
\* position of the successful fork in the trace (0: none)
ForkAt ==
  IF HasOk(trace, "fork")
  THEN CHOOSE j \in 1 .. Len(trace) : trace[j].op = "fork" /\ trace[j].ok
  ELSE 0
\* event j of t is a failure of the redirection stage or of a later one: a
\* failed late operation, the failed close of descriptor 2 that follows the
\* explicit closes, or the failed validation of the pid file
LateFailure(t, j) ==
  /\ ~t[j].ok
  /\ \/ t[j].op \in LateOps
     \/ t[j].op = "close" /\ t[j].fd = STDERR_FILENO /\ k = config.num_fds_to_close
     \/ t[j].op = "access" /\ ForkAt # 0 /\ j > ForkAt
OkRestores(t) == {j \in 1 .. Len(t) : t[j].op = "dup2" /\ t[j].ok}

\* C11 as stated: once the duplicate of stderr exists, every failure of the
\* redirection stage and of the later stages (stderr close, reopen, same-file
\* stat, truncate, fork, setsid, exec, pid-file validation, open and write),
\* in the parent and in the child, is followed at once by the dup2 that
\* restores descriptor 2; there are no more messages of these paths than
\* successful restorations; and a process whose restoration failed has exited
\* with failure.
C11_RestoreBeforeReport ==
  HasOk(trace, "dup") =>
    /\ \A j \in 1 .. Len(trace) :
         /\ LateFailure(trace, j) => j < Len(trace) /\ trace[j + 1].op = "dup2"
         /\ (trace[j].op = "dup2" /\ ~trace[j].ok) => pc = "done" /\ exit_status = "failure"
    /\ \A j \in 1 .. Len(ctrace) :
         /\ LateFailure(ctrace, j) => j < Len(ctrace) /\ ctrace[j + 1].op = "dup2"
         /\ (ctrace[j].op = "dup2" /\ ~ctrace[j].ok) => cexit = "failure"
    /\ Cardinality({j \in 1 .. Len(diag) : diag[j].msg \in LateMessages})
         <= Cardinality(OkRestores(trace)) + Cardinality(OkRestores(ctrace))

\* the run met a validation error: no target program, an unknown user, a
\* configured path that exists without the required permission, or a
\* requested soft value above the current hard ceiling
ValidationError ==
  \/ NoProgram(config.remaining_argc)
  \/ HasFailed(trace, "getpwnam")
  \/ HasFailed(trace, "access")
  \/ \E j \in 1 .. Len(diag) : diag[j].msg = "specified SOFT exceeds HARD"

\* C12 as stated: a run that has ended on a validation error has ended with
\* failure before fork was called, and no child exists.
C12_ValidationBeforeFork ==
  (pc = "done" /\ ValidationError) =>
    /\ exit_status = "failure"
    /\ ~Has(trace, "fork")
    /\ cpc = "none" /\ cexit = "none" /\ child_pid = 0

\* neither process is ever blocked: a launcher that has not exited and a
\* child that has neither exited nor become the target program can take a
\* step, whatever the state of the other one
NeverBlocked ==
  /\ pc # "done" => ENABLED ParentStep
  /\ cpc \notin {"none", "c_done"} => ENABLED ChildStep

\* C13: termination of both actors. Neither process ever waits for the
\* other, the launcher always reaches its exit, and a child, once forked,
\* always ends as the target program or with a failure exit.
C13_BothTerminate ==
  /\ []NeverBlocked
  /\ <>(pc = "done" /\ exit_status \in {"success", "failure"})
  /\ [](cpc # "none" => <>(cpc = "c_done" /\ cexit \in {"execd", "failure"}))

C13_Witness ==
  /\ pc = "done" /\ exit_status = "success" /\ HasOk(trace, "fclose")
  /\ cpc = "c_done" /\ cexit = "execd"

\* the stage a position of the launcher belongs to, in the order of the
\* claim: 1 limits, 2 identity/environment (user, directory, explicit
\* closes), 3 diagnostic-channel preserver (validation of the stream paths,
\* duplicate of stderr), 4 redirection, 5 fork and what follows
StageOf(l) ==
  IF l = "check_args" THEN 0
  ELSE IF l = "limits" THEN 1
  ELSE IF l \in {"change_user", "chdir", "close_fds"} THEN 2
  ELSE IF l \in {"access_stdin", "access_stdout", "access_stderr", "dup_stderr"} THEN 3
  ELSE IF l \in {"close_stdin", "close_stdout", "close_stderr", "reopen_stdin", "same_file",
                 "reopen_stdout", "truncate", "reopen_stderr"} THEN 4
  ELSE 5

\* what a stage has left behind when it is complete
LimitsDone == i = NumKinds
UserDone == config.username # NoPath => uid = config.username
ChdirDone == config.use_working_dir # NoPath => cwd = config.use_working_dir
ClosesDone == k = config.num_fds_to_close
PreserverDone == RedirectStreams(config.keep_open) => Has(trace, "dup")
RedirectionDone ==
  RedirectStreams(config.keep_open) =>
    \E j \in 1 .. Len(trace) :
      trace[j].op = "freopen" /\ trace[j].fd = STDERR_FILENO /\ trace[j].ok

\* C14 as stated: a stage is entered only when the stages before it are
\* complete: identity/environment after the limits, the diagnostic-channel
\* preserver after the user switch, the requested directory change and every
\* explicit close, the redirection after the preserver, fork after the
\* redirection.
C14_StageOrder ==
  /\ StageOf(pc) = 2 => LimitsDone
  /\ StageOf(pc) = 3 => LimitsDone /\ UserDone /\ ChdirDone /\ ClosesDone
  /\ StageOf(pc) = 4 => LimitsDone /\ UserDone /\ ChdirDone /\ ClosesDone /\ PreserverDone
  /\ pc = "fork" => /\ LimitsDone /\ UserDone /\ ChdirDone /\ ClosesDone
                    /\ PreserverDone /\ RedirectionDone

\* the calls that resolve a configured stream path or the pid-file path
PathOps == {"access", "stat", "creat", "freopen", "fopen"}

\* C15 as stated: when a working directory is requested, every call that
\* resolves a stream path or the pid-file path is made with the requested
\* directory as the current one.
C15_PathsAfterChdir ==
  config.use_working_dir # NoPath =>
    \A j \in 1 .. Len(trace) :
      trace[j].op \in PathOps => trace[j].cwd = config.use_working_dir

UserOps == {"getpwnam", "setuid"}
\* every requested kind has been committed by a successful setrlimit
LimitsCommitted ==
  \A n \in Kinds :
    Requested(config.soft_limits[n], config.hard_limits[n]) =>
      \E j \in 1 .. Len(limit_log) : limit_log[j].kind = n /\ limit_log[j].ok
\* the user switch (when requested) succeeded before event h of the trace
UserOkBefore(h) ==
  config.username # NoPath => \E j \in 1 .. (h - 1) : trace[j].op = "setuid" /\ trace[j].ok
\* the directory change (when requested) succeeded before event h
ChdirOkBefore(h) ==
  config.use_working_dir # NoPath => \E j \in 1 .. (h - 1) : trace[j].op = "chdir" /\ trace[j].ok

\* C16: the user switch is the first call after the limit loop, made with
\* every requested limit committed; the directory change is made only after
\* a requested user switch succeeded and before any close; a close is made
\* only after the requested user switch and directory change succeeded; a
\* failed user switch or directory change is the last call of the run, which
\* ends with failure; and while the limit loop runs nothing else has happened.
C16_SetupOrder ==
  /\ \A h \in 1 .. Len(trace) :
       /\ trace[h].op \in UserOps => h = 1 /\ LimitsDone /\ LimitsCommitted
       /\ trace[h].op = "chdir" =>
            /\ LimitsDone /\ UserOkBefore(h)
            /\ \A j \in 1 .. (h - 1) : trace[j].op # "close"
       /\ trace[h].op = "close" => LimitsDone /\ UserOkBefore(h) /\ ChdirOkBefore(h)
       /\ (trace[h].op \in UserOps \cup {"chdir"} /\ ~trace[h].ok) =>
            h = Len(trace) /\ pc = "done" /\ exit_status = "failure"
  /\ pc = "limits" => trace = <<>> /\ uid = "caller" /\ cwd = "orig" /\ fds = fds0 /\ k = 0

C16_Witness ==
  /\ pc = "done" /\ exit_status = "success"
  /\ limit_log # <<>> /\ uid = "daemon" /\ cwd = "/"
  /\ config.num_fds_to_close > 1 /\ k = config.num_fds_to_close

\* event j of the trace is the failure of one of the operations that are
\* fatal before fork: user resolution or switch, directory change, a close
\* (explicit or of descriptor 0, 1, 2), a reopen, or the same-file detection
\* failing for another reason than a missing file
FatalPreFork(j) ==
  /\ ~trace[j].ok
  /\ trace[j].op \in UserOps \cup {"chdir", "close", "freopen", "creat"}

IsClose(e) == e.op = "close"
\* the close calls of the run, in order: the explicit closes come first
CloseEvents == SelectSeq(trace, IsClose)

\* C18: the m-th close call is the close of the m-th listed descriptor; it
\* succeeded exactly when the loop went past it; a failed one is the last
\* close call of the run, which has ended with failure without a fork and
\* with the entries before it closed; the redirection and fork are reached
\* only with every entry closed; and with a descriptor listed twice the loop
\* never gets past the second occurrence, whose close, when made, fails.
C18_ExplicitCloses ==
  LET l == config.fds_to_close
      n == config.num_fds_to_close
      ce == CloseEvents
  IN /\ k <= n /\ k <= Len(ce)
     /\ \A m \in 1 .. Len(ce) : m <= n =>
          /\ ce[m].fd = l[m]
          /\ ce[m].ok <=> m <= k
          /\ ~ce[m].ok =>
               /\ Len(ce) = m /\ k = m - 1
               /\ pc = "done" /\ exit_status = "failure"
               /\ ~Has(trace, "fork") /\ cpc = "none"
     /\ (StageOf(pc) >= 4 /\ pc # "done") => k = n
     /\ pc = "close_fds" => Len(ce) = k /\ \A m \in 1 .. k : ~IsOpen(fds, l[m])
     /\ \A a, b \in 1 .. n : (a < b /\ l[a] = l[b]) =>
          /\ k < b
          /\ Len(ce) >= b => ~ce[b].ok
          /\ ~Has(trace, "fork") /\ cpc = "none"
          /\ pc = "done" => exit_status = "failure"

C18_Witness ==
  /\ pc = "done" /\ exit_status = "failure"
  /\ config.num_fds_to_close > 1 /\ config.fds_to_close[1] = config.fds_to_close[config.num_fds_to_close]
  /\ k = config.num_fds_to_close - 1
  /\ Len(CloseEvents) = config.num_fds_to_close
  /\ ~CloseEvents[config.num_fds_to_close].ok

\* C19: every pair handed to setrlimit, accepted or refused, has its soft
\* value at most its hard value, or an infinite hard value.
C19_PairsOrdered ==
  \A j \in 1 .. Len(limit_log) :
    limit_log[j].cur <= limit_log[j].max \/ limit_log[j].max = RLIM_INFINITY

C19_Witness ==
  \E j \in 1 .. Len(limit_log) :
    LET n == limit_log[j].kind
    IN /\ config.soft_limits[n] = -1 /\ config.hard_limits[n] >= 0
       /\ rlim0[n].cur = 0 /\ rlim0[n].max = RLIM_INFINITY
       /\ limit_log[j].cur = config.hard_limits[n] /\ limit_log[j].max = config.hard_limits[n]
       /\ limit_log[j].ok

\* the calls made on the pid file once it has been validated
PidOps == {"fopen", "fprintf", "fclose"}
\* path q names a file the redirection opens for writing
StreamTarget(q) ==
  /\ RedirectStreams(config.keep_open)
  /\ \E t \in {config.use_stdout_file, config.use_stderr_file} :
       t = q \/ (ino[t] # 0 /\ ino[t] = ino[q])
\* the file named q was neither created, truncated nor written (the null
\* device holds nothing)
Untouched(q) ==
  \/ ino[q] \in {0, NullIno}
  \/ content[ino[q]] = OldContent /\ truncs[ino[q]] = 0

\* the pid-file calls are made by the parent only, after a successful fork
\* and with a pid path configured: the calls on the opened file, every path
\* call that follows the duplication of stderr and is not part of the
\* redirection, and no path call at all in the child
PidCallsAfterFork ==
  /\ \A j \in 1 .. Len(trace) :
       \/ trace[j].op \in PidOps
       \/ trace[j].op = "access" /\ Has(SubSeq(trace, 1, j), "dup")
       \/ trace[j].op \in PathOps /\ ForkAt # 0 /\ j > ForkAt
       => /\ ForkAt # 0 /\ j > ForkAt
          /\ config.use_pid_file # NoPath
          /\ trace[j].op \in PathOps => trace[j].path = config.use_pid_file
  /\ \A j \in 1 .. Len(ctrace) : ctrace[j].op \notin PidOps \cup PathOps
  /\ pid_fd # -1 => ForkAt # 0 /\ config.use_pid_file # NoPath
  /\ pid_buf # <<>> => pid_fd # -1

\* C20 as stated: the pid-file calls are made by the parent only and after a
\* successful fork, and as long as the parent has not opened it (pre-fork
\* abort, fork failure, any path of the child) the file the pid path names
\* is neither created, truncated nor written.
C20_PidFileUntouched ==
  /\ PidCallsAfterFork
  /\ (config.use_pid_file # NoPath /\ ~HasOk(trace, "fopen")) => Untouched(config.use_pid_file)

\* C20 amended: as above for a pid path that does not name a file the
\* redirection opens for writing (such a file is created or truncated by the
\* reopen of stdout or stderr before fork); and with no pid path no pid-file
\* call is made and no file outside the redirection targets is touched.
C20_PidFileFrame ==
  /\ PidCallsAfterFork
  /\ (config.use_pid_file # NoPath /\ ~StreamTarget(config.use_pid_file)
        /\ ~HasOk(trace, "fopen")) => Untouched(config.use_pid_file)
  /\ config.use_pid_file = NoPath =>
       /\ pid_fd = -1 /\ ~Has(trace, "fopen")
       /\ \A q \in Paths : ~StreamTarget(q) => Untouched(q)

C20_Witness ==
  /\ pc = "done" /\ exit_status = "failure" /\ HasFailed(trace, "fork")
  /\ config.use_pid_file = "a" /\ ino["a"] # 0 /\ ~StreamTarget("a")
  /\ ~config.keep_open /\ content[ino["a"]] = OldContent

\* descriptor fd of table tab refers to the file the configured path names,
\* opened by the redirection
RefersTo(tab, fd, path) ==
  /\ ino[path] # 0
  /\ tab[fd].kind = "file" /\ tab[fd].ref = ino[path]

\* C21: whenever fork is reached with the streams redirected, descriptors 0,
\* 1 and 2 refer to the configured stdin, stdout and stderr targets, stdin
\* opened for reading and the other two for writing, none refers to a
\* stream of the launching caller, and the child starts with the same three
\* descriptors; also when the truncation failed and descriptor 2 was
\* restored in between.
C21_StreamsAtFork ==
  RedirectStreams(config.keep_open) =>
    /\ pc = "fork" =>
         /\ RefersTo(fds, STDIN_FILENO, config.use_stdin_file)
         /\ RefersTo(fds, STDOUT_FILENO, config.use_stdout_file)
         /\ RefersTo(fds, STDERR_FILENO, config.use_stderr_file)
         /\ fds[STDIN_FILENO].mode = "r"
         /\ fds[STDOUT_FILENO].mode \in {"w", "a"}
         /\ fds[STDERR_FILENO].mode = fds[STDOUT_FILENO].mode
         /\ \A fd \in StdFdSet : ~fds[fd].cloexec
    /\ cpc = "c_umask" =>
         /\ RefersTo(cfds, STDIN_FILENO, config.use_stdin_file)
         /\ RefersTo(cfds, STDOUT_FILENO, config.use_stdout_file)
         /\ RefersTo(cfds, STDERR_FILENO, config.use_stderr_file)

C21_Witness ==
  /\ pc = "fork" /\ ~config.keep_open
  /\ HasFailed(trace, "ftruncate")
  /\ \E j \in 1 .. Len(trace) : trace[j].op = "dup2" /\ trace[j].ok
  /\ \E j \in 1 .. Len(diag) : diag[j].msg = "truncate() error" /\ diag[j].kind = "orig"
  /\ RefersTo(fds, STDERR_FILENO, config.use_stderr_file)

\* the explicit close list names one of the descriptors 0, 1, 2
NamesStdFd == \E fd \in StdFdSet : Named(fd)

\* C22: with the streams redirected and one of 0, 1, 2 in the explicit close
\* list, the run never gets past the three closes of the redirection stage:
\* no stream is reopened, fork is never called, no child exists, and a run
\* that has ended has ended with failure.
C22_StdFdInListFails ==
  (RedirectStreams(config.keep_open) /\ NamesStdFd) =>
    /\ StageOf(pc) <= 4 \/ pc = "done"
    /\ pc \notin {"reopen_stdin", "same_file", "reopen_stdout", "truncate", "reopen_stderr"}
    /\ ~Has(trace, "fork") /\ ~Has(trace, "freopen")
    /\ cpc = "none" /\ cexit = "none" /\ child_pid = 0
    /\ pc = "done" => exit_status = "failure"

C22_Witness ==
  /\ ~config.keep_open /\ Named(STDERR_FILENO) /\ ~Named(STDIN_FILENO) /\ ~Named(STDOUT_FILENO)
  /\ k = config.num_fds_to_close
  /\ pc = "done" /\ exit_status = "failure"
  /\ Len(CloseEvents) = k + 3 /\ ~CloseEvents[k + 3].ok
  /\ \E j \in 1 .. Len(diag) : diag[j].msg = "failed to close standard error"

\* a pid-file operation whose failure the parent acts on has failed: the
\* validation or the open, after fork
PidFileFailed ==
  \E j \in 1 .. Len(trace) :
    /\ ForkAt # 0 /\ j > ForkAt
    /\ trace[j].op \in {"access", "fopen"} /\ ~trace[j].ok

\* C23: once fork has succeeded, a parent that has exited has exited with
\* failure exactly when the validation or the open of the pid file failed,
\* whatever the child has done or not yet done; a failed fork ends the run
\* with failure and without a child; the child exists from the fork on, its
\* outcome follows from its own calls alone, and as long as it has neither
\* exited nor become the target program it can take its next step, also
\* after the parent has exited with failure.
C23_ParentStatusIndependent ==
  /\ (pc = "done" /\ ForkAt # 0) => (exit_status = "failure" <=> PidFileFailed)
  /\ (pc = "done" /\ ForkAt # 0 /\ config.use_pid_file = NoPath) => exit_status = "success"
  /\ HasFailed(trace, "fork") => pc = "done" /\ exit_status = "failure" /\ cpc = "none"
  /\ ForkAt # 0 =>
       /\ cpc # "none"
       /\ cpc # "c_done" => ENABLED ChildStep
       /\ cexit = "failure" <=> (HasFailed(ctrace, "setsid") \/ HasFailed(ctrace, "execvp"))
       /\ cexit = "execd" <=> HasOk(ctrace, "execvp")
       /\ cexit = "running" <=> cpc # "c_done"

C23_Witness ==
  /\ pc = "done" /\ exit_status = "success" /\ HasOk(trace, "fclose")
  /\ cpc = "c_done" /\ cexit = "failure" /\ HasFailed(ctrace, "execvp")

=============================================================================
